---- MODULE Spec2Model ----
(***************************************************************************)
(* The ledger state machine of the Health-Insurance DAO.  Every handler    *)
(* of the four process_instruction entrypoints is one action over the      *)
(* deserialized aggregate (dao_data).  A handler that returns Err leaves   *)
(* before dao_data.serialize, so the persisted aggregate keeps its value.  *)
(* Instruction payloads are taken well formed; fields no handler reads     *)
(* (service_date, service_type, provider, description, timestamps) are     *)
(* left out of the records.                                                *)
(***************************************************************************)
EXTENDS Integers, Sequences, FiniteSets

VARIABLES admin, members, claims, treasury, risk_profiles, disputes, payouts, last

vars == <<admin, members, claims, treasury, risk_profiles, disputes, payouts, last>>

(***************************************************************************)
(* Bounds of the model.                                                    *)
(***************************************************************************)
\* Longest claims vector explored.
MaxClaims == 1
\* Longest risk_profiles vector explored.
MaxProfiles == 1
\* Longest members vector explored.
MaxMembers == 2
\* Longest disputes vector explored.
MaxDisputes == 1
\* Number of voter keys.
NumVoters == 6
\* Largest value of the unsigned balance type (u64::MAX, narrowed).
U64_MAX == 4

(***************************************************************************)
(* Program constants.                                                      *)
(***************************************************************************)
\* claim.verifiers.len() >= 2
Q_verify == 2
\* dispute.votes.len() > 5
Q_vote == 5
\* member.as_ref()[0] % 100
ScoreModulus == 100
\* instruction_data[1..33]: the length of the encrypted-data hash
HashLen == 32
\* amount: 1000000 of a claim submitted with a proof
ProofClaimAmount == 1000000
\* reserve_ratio is an f32; the model holds it as a count of halves, which
\* f32 represents exactly, as are its products with the balances explored.
RatioDen == 2

(***************************************************************************)
(* Input domains.  A Pubkey is modelled by its first byte.                 *)
(***************************************************************************)
Keys == {0, 1}
DefaultPubkey == 0
Amounts == {1, 2}
CoverageLimits == {1, 2}
RiskScores == {0, 1}
\* -1/2, 0, 1/2 and 3/2
RatioInputs == {-1, 0, 1, 3}
\* The premium handler fetches the payer account and never reads it.
Payers == {1}
Voters == 0 .. (NumVoters - 1)
Initiators == {0}
Respondents == {1}
\* The bytes a join payload is made of, and the bytes of a proof.
RoleBytes == {0, 1, 2}
HashBytes == {0, 1}
Proofs == {<<>>, <<1>>}
\* Whether the build traps on integer overflow (overflow-checks) or wraps.
Builds == {"trap", "wrap"}

ClaimStatus == {"Pending", "Verified", "Rejected", "Paid"}
DisputeStatus == {"Open", "Closed"}

(***************************************************************************)
(* The result of the last instruction: the handler, its ProgramResult,     *)
(* its index and key arguments (0 where the handler has none), and the     *)
(* resolution message of a closing vote; with them the treasury balance    *)
(* the instruction found (before), the amount of a premium payment, and,   *)
(* for a treasury payout, the amount of the premium payment that came      *)
(* right before it (premium, 0 when the instruction before was no          *)
(* accepted premium payment), and the payload of a Security_Privacy join   *)
(* (data).                                                                 *)
(***************************************************************************)
Result(op, res, idx, key, outcome) ==
    [op |-> op, res |-> res, idx |-> idx, key |-> key, outcome |-> outcome,
     before |-> treasury.balance, amount |-> 0, premium |-> 0, data |-> <<>>]

Init ==
    /\ admin = DefaultPubkey
    /\ members = <<>>
    /\ claims = <<>>
    /\ treasury = [balance |-> 0, reserve_ratio |-> 0]
    /\ risk_profiles = <<>>
    /\ disputes = <<>>
    /\ payouts = {}
    /\ last = [op |-> "Init", res |-> "Ok", idx |-> 0, key |-> 0, outcome |-> "none",
               before |-> 0, amount |-> 0, premium |-> 0, data |-> <<>>]

(***************************************************************************)
(* Claims_Handling.rs                                                      *)
(***************************************************************************)
\* claim_id: dao_data.claims.len() as u64 (dispute_id: disputes.len() as u64)
IdFromOne(list) == Len(list) + 1
NextId(list) == Len(list)

\* opcode 1: submit a claim
SubmitClaim(member, amount) ==
    /\ claims' = Append(claims, [claim_id |-> NextId(claims),
                                 member |-> member,
                                 amount |-> amount,
                                 status |-> "Pending",
                                 verifiers |-> <<>>])
    /\ last' = Result("SubmitClaim", "Ok", Len(claims), member, "none")
    /\ UNCHANGED <<admin, members, treasury, risk_profiles, disputes, payouts>>

\* match claim.status { Pending => ..., _ => Err }
CanVerifyAny(status) == TRUE
CanVerify(status) == status = "Pending"

\* if claim.verifiers.len() >= 2
QuorumLate(verifiers) == Len(verifiers) > Q_verify
VerifyQuorum(verifiers) == Len(verifiers) >= Q_verify

\* claim.status = ClaimStatus::Verified
QuorumRejects(status) == "Rejected"
QuorumStatus(status) == "Verified"

\* opcode 2: verify a claim
VerifyClaim(verifier, claim_index) ==
    /\ IF claim_index < Len(claims)
       THEN LET claim == claims[claim_index + 1]
                pushed == Append(claim.verifiers, verifier)
            IN  IF CanVerify(claim.status)
                THEN /\ claims' = [claims EXCEPT ![claim_index + 1] =
                            [claim EXCEPT
                                !.verifiers = pushed,
                                !.status = IF VerifyQuorum(pushed)
                                           THEN QuorumStatus(claim.status)
                                           ELSE claim.status]]
                     /\ last' = Result("VerifyClaim", "Ok", claim_index, verifier, "none")
                ELSE /\ claims' = claims
                     /\ last' = Result("VerifyClaim", "InvalidAccountData",
                                       claim_index, verifier, "none")
       ELSE /\ claims' = claims
            /\ last' = Result("VerifyClaim", "InvalidAccountData",
                              claim_index, verifier, "none")
    /\ UNCHANGED <<admin, members, treasury, risk_profiles, disputes, payouts>>

\* claim.status = ClaimStatus::Paid
PaidStatusReset(status) == "Pending"
PaidStatus(status) == "Paid"

\* opcode 3: pay out a verified claim (the transfer itself is simulated)
CH_Payout(claim_index) ==
    /\ IF claim_index < Len(claims)
       THEN LET claim == claims[claim_index + 1]
            IN  IF claim.status = "Verified"
                THEN /\ claims' = [claims EXCEPT ![claim_index + 1].status =
                                       PaidStatus(claim.status)]
                     /\ payouts' = payouts \cup {claim_index}
                     /\ last' = Result("CH_Payout", "Ok", claim_index, 0, "none")
                ELSE /\ UNCHANGED <<claims, payouts>>
                     /\ last' = Result("CH_Payout", "InvalidAccountData",
                                       claim_index, 0, "none")
       ELSE /\ UNCHANGED <<claims, payouts>>
            /\ last' = Result("CH_Payout", "InvalidAccountData", claim_index, 0, "none")
    /\ UNCHANGED <<admin, members, treasury, risk_profiles, disputes>>

\* opcode 0: join the DAO (this file's Member has an address and a
\* timestamp, no role and no hash)
CH_Join(member) ==
    /\ members' = Append(members, [member_address |-> member,
                                   role |-> "None",
                                   encrypted_data_hash |-> <<>>])
    /\ last' = Result("CH_Join", "Ok", 0, member, "none")
    /\ UNCHANGED <<admin, claims, treasury, risk_profiles, disputes, payouts>>

\* _ => return Err(ProgramError::InvalidInstructionData)
UnknownOpcode ==
    /\ last' = Result("Unknown", "InvalidInstructionData", 0, 0, "none")
    /\ UNCHANGED <<admin, members, claims, treasury, risk_profiles, disputes, payouts>>

(***************************************************************************)
(* Security_Privacy.rs                                                     *)
(***************************************************************************)
\* The payload of a join (instruction_data after the opcode byte) with the
\* role byte first and the hash after it, and with the hash first.
RoleFirst(role, hash) == <<role>> \o [k \in 1 .. HashLen |-> hash]
HashFirst(role, hash) == [k \in 1 .. HashLen |-> hash] \o <<role>>
JoinPayloads ==
    {RoleFirst(r, h) : r \in RoleBytes, h \in HashBytes}
        \cup {HashFirst(r, h) : r \in RoleBytes, h \in HashBytes}

\* match instruction_data[33] { 1 => Role::Member, _ => return Err }
ParseRole(data) == IF data[HashLen + 1] = 1 THEN "Member" ELSE "Err"

\* dao_data.members.iter().any(|m| m.member_address == *new_member.key)
NeverRegistered(key) == FALSE
IsRegistered(key) == \E k \in 1 .. Len(members) : members[k].member_address = key

\* opcode 0: join the DAO
SP_Join(new_member, data) ==
    /\ LET encrypted_data_hash == SubSeq(data, 1, HashLen)
           role == ParseRole(data)
           JoinResult(res) == [Result("SP_Join", res, 0, new_member, "none")
                                  EXCEPT !.data = data]
       IN  IF role = "Err"
           THEN /\ members' = members
                /\ last' = JoinResult("InvalidInstructionData")
           ELSE IF IsRegistered(new_member)
           THEN /\ members' = members
                /\ last' = JoinResult("AccountAlreadyInitialized")
           ELSE /\ members' = Append(members,
                                [member_address |-> new_member,
                                 role |-> role,
                                 encrypted_data_hash |-> encrypted_data_hash])
                /\ last' = JoinResult("Ok")
    /\ UNCHANGED <<admin, claims, treasury, risk_profiles, disputes, payouts>>

\* members.iter().any(|m| m.member_address == *member.key && m.role == Role::Member)
AnyoneIsMember(key) == TRUE
IsMember(key) ==
    \E k \in 1 .. Len(members) :
        members[k].member_address = key /\ members[k].role = "Member"

\* verify_zkp: proof.len() > 0
verify_zkp(proof) == Len(proof) > 0

\* opcode 1: submit a claim with a proof (this file's Claim has no status
\* and no verifiers: the record holds those of a fresh claim)
SP_SubmitClaim(member, zkp_proof) ==
    /\ IF ~IsMember(member)
       THEN /\ claims' = claims
            /\ last' = Result("SP_SubmitClaim", "InvalidArgument", 0, member, "none")
       ELSE IF ~verify_zkp(zkp_proof)
       THEN /\ claims' = claims
            /\ last' = Result("SP_SubmitClaim", "InvalidArgument", 0, member, "none")
       ELSE /\ claims' = Append(claims, [claim_id |-> NextId(claims),
                                         member |-> member,
                                         amount |-> ProofClaimAmount,
                                         status |-> "Pending",
                                         verifiers |-> <<>>])
            /\ last' = Result("SP_SubmitClaim", "Ok", Len(claims), member, "none")
    /\ UNCHANGED <<admin, members, treasury, risk_profiles, disputes, payouts>>

\* pub multi_sig_signers: no handler writes it; it is empty in the default
\* aggregate
multi_sig_signers == <<>>

\* opcode 2: multi-signature operation, given the number of leading signers
MultiSig(signers) ==
    /\ last' = Result("MultiSig",
                      IF signers < Len(multi_sig_signers)
                      THEN "InvalidArgument" ELSE "Ok", 0, 0, "none")
    /\ UNCHANGED <<admin, members, claims, treasury, risk_profiles, disputes, payouts>>

(***************************************************************************)
(* Financial_Risk_Management.rs                                            *)
(***************************************************************************)
\* calculate_risk_score: (member.as_ref()[0] % 100) as u8
calculate_risk_score(member) == member % ScoreModulus

SetMin(S) == CHOOSE x \in S : \A y \in S : x <= y

\* risk_profiles.iter().find(|rp| rp.risk_score == score): the position of
\* the first match, 0 for None
FindProfile(profiles, score) ==
    LET hits == {k \in 1 .. Len(profiles) : profiles[k].risk_score = score}
    IN  IF hits = {} THEN 0 ELSE SetMin(hits)

\* (balance as f32 * reserve_ratio) as u64: the cast truncates and saturates
required_reserve(balance, ratio) ==
    LET product == balance * ratio
    IN  IF product <= 0 THEN 0
        ELSE IF product \div RatioDen > U64_MAX THEN U64_MAX
        ELSE product \div RatioDen

\* balance - required_reserve on u64, in a build that wraps
WrappingSub(a, b) == IF b > a THEN a - b + U64_MAX + 1 ELSE a - b

\* The None of Option<u64>: a value no u64 has.
NoneU64 == U64_MAX + 1

\* u64::checked_add
wrapping_add(a, b) == (a + b) % (U64_MAX + 1)
checked_add(a, b) == IF a + b > U64_MAX THEN NoneU64 ELSE a + b

\* u64::checked_sub
sub_dropped(a, b) == a
checked_sub(a, b) == IF b > a THEN NoneU64 ELSE a - b

\* The checks of the payout handler in the order the code makes them.
ReserveThenCoverage(amount, limit, balance, reserve, build) ==
    IF reserve > balance /\ build = "trap" THEN "Panic"
    ELSE IF WrappingSub(balance, reserve) < amount THEN "InsufficientFunds"
    ELSE IF amount > limit THEN "InvalidArgument"
    ELSE IF checked_sub(balance, amount) = NoneU64 THEN "ArithmeticOverflow"
    ELSE "Ok"
PayoutChecks(amount, limit, balance, reserve, build) ==
    IF amount > limit THEN "InvalidArgument"
    ELSE IF reserve > balance /\ build = "trap" THEN "Panic"
    ELSE IF WrappingSub(balance, reserve) < amount THEN "InsufficientFunds"
    ELSE IF checked_sub(balance, amount) = NoneU64 THEN "ArithmeticOverflow"
    ELSE "Ok"

\* dao_data is serialized into the account only when the match arm did not
\* return Err (or panic): what the account holds after the instruction.
PersistAlways(res, old, new) == new
Persisted(res, old, new) == IF res = "Ok" THEN new ELSE old

\* opcode 3: premium payment
PayPremium(payer, amount) ==
    /\ LET sum == checked_add(treasury.balance, amount)
           res == IF sum = NoneU64 THEN "ArithmeticOverflow" ELSE "Ok"
       IN  /\ treasury' = Persisted(res, treasury, [treasury EXCEPT !.balance = sum])
           /\ last' = [Result("PayPremium", res, 0, 0, "none")
                          EXCEPT !.amount = amount]
    /\ UNCHANGED <<admin, members, claims, risk_profiles, disputes, payouts>>

\* The result of a treasury payout, with the amount of the premium payment
\* accepted right before it.
PayoutResult(res, claim_index) ==
    [Result("FRM_Payout", res, claim_index, 0, "none")
        EXCEPT !.premium = IF last.op = "PayPremium" /\ last.res = "Ok"
                           THEN last.amount ELSE 0]

\* opcode 4: claim payout
FRM_Payout(claim_index, build) ==
    /\ IF claim_index < Len(claims)
       THEN LET claim == claims[claim_index + 1]
                rp == FindProfile(risk_profiles, calculate_risk_score(claim.member))
            IN  IF rp # 0
                THEN LET res == PayoutChecks(claim.amount,
                                    risk_profiles[rp].coverage_limit,
                                    treasury.balance,
                                    required_reserve(treasury.balance,
                                                     treasury.reserve_ratio),
                                    build)
                     IN  /\ last' = PayoutResult(res, claim_index)
                         /\ treasury' = Persisted(res, treasury,
                                [treasury EXCEPT !.balance =
                                    checked_sub(treasury.balance, claim.amount)])
                         /\ payouts' = IF res = "Ok"
                                       THEN payouts \cup {claim_index} ELSE payouts
                ELSE /\ last' = PayoutResult("InvalidAccountData", claim_index)
                     /\ UNCHANGED <<treasury, payouts>>
       ELSE /\ last' = PayoutResult("InvalidAccountData", claim_index)
            /\ UNCHANGED <<treasury, payouts>>
    /\ UNCHANGED <<admin, members, claims, risk_profiles, disputes>>

\* opcode 5: update or add a risk profile
UpdateRiskProfile(member, new_risk_score, new_coverage_limit) ==
    /\ LET rp == FindProfile(risk_profiles, calculate_risk_score(member))
           profile == [risk_score |-> new_risk_score,
                       coverage_limit |-> new_coverage_limit]
       IN  IF rp # 0
           THEN risk_profiles' = [risk_profiles EXCEPT ![rp] = profile]
           ELSE risk_profiles' = Append(risk_profiles, profile)
    /\ last' = Result("UpdateRiskProfile", "Ok", 0, member, "none")
    /\ UNCHANGED <<admin, members, claims, treasury, disputes, payouts>>

\* if *admin.key != dao_data.admin { return Err }
AnyCaller(caller) == TRUE
IsAdmin(caller) == caller = admin

\* opcode 6: adjust the treasury reserve ratio
SetReserveRatio(caller, new_reserve_ratio) ==
    /\ IF ~IsAdmin(caller)
       THEN /\ treasury' = treasury
            /\ last' = Result("SetReserveRatio", "IncorrectProgramId", 0, caller, "none")
       ELSE /\ treasury' = [treasury EXCEPT !.reserve_ratio = new_reserve_ratio]
            /\ last' = Result("SetReserveRatio", "Ok", 0, caller, "none")
    /\ UNCHANGED <<admin, members, claims, risk_profiles, disputes, payouts>>

(***************************************************************************)
(* Dispute_Resolution.rs                                                   *)
(***************************************************************************)
\* opcode 7: submit a dispute
SubmitDispute(initiator, respondent) ==
    /\ disputes' = Append(disputes, [dispute_id |-> NextId(disputes),
                                     initiator |-> initiator,
                                     respondent |-> respondent,
                                     status |-> "Open",
                                     votes |-> <<>>])
    /\ last' = Result("SubmitDispute", "Ok", Len(disputes), initiator, "none")
    /\ UNCHANGED <<admin, members, claims, treasury, risk_profiles, payouts>>

\* dispute.votes.iter().any(|(v, _)| v == voter.key)
NeverVoted(votes, voter) == FALSE
HasVoted(votes, voter) == \E k \in 1 .. Len(votes) : votes[k][1] = voter

\* if dispute.votes.len() > 5
QuorumAtFive(votes) == Len(votes) >= Q_vote
VoteQuorum(votes) == Len(votes) > Q_vote

\* dispute.votes.iter().filter(|(_, v)| *v).count()
RECURSIVE agree_count(_)
agree_count(votes) ==
    IF votes = <<>> THEN 0
    ELSE (IF Head(votes)[2] THEN 1 ELSE 0) + agree_count(Tail(votes))

\* if agree_count * 2 > dispute.votes.len()
TieForInitiator(votes) == agree_count(votes) * 2 >= Len(votes)
FavoursInitiator(votes) == agree_count(votes) * 2 > Len(votes)

\* opcode 8: vote on a dispute
CastVote(voter, dispute_index, vote) ==
    /\ IF dispute_index < Len(disputes)
       THEN LET dispute == disputes[dispute_index + 1]
                pushed == Append(dispute.votes, <<voter, vote>>)
            IN  IF dispute.status = "Open"
                THEN IF ~HasVoted(dispute.votes, voter)
                     THEN /\ disputes' = [disputes EXCEPT ![dispute_index + 1] =
                                 [dispute EXCEPT
                                     !.votes = pushed,
                                     !.status = IF VoteQuorum(pushed)
                                                THEN "Closed" ELSE dispute.status]]
                          /\ last' = Result("CastVote", "Ok", dispute_index, voter,
                                 IF VoteQuorum(pushed)
                                 THEN (IF FavoursInitiator(pushed)
                                       THEN "initiator" ELSE "against")
                                 ELSE "none")
                     ELSE /\ disputes' = disputes
                          /\ last' = Result("CastVote", "InvalidArgument",
                                            dispute_index, voter, "none")
                ELSE /\ disputes' = disputes
                     /\ last' = Result("CastVote", "InvalidInstructionData",
                                       dispute_index, voter, "none")
       ELSE /\ disputes' = disputes
            /\ last' = Result("CastVote", "InvalidAccountData",
                              dispute_index, voter, "none")
    /\ UNCHANGED <<admin, members, claims, treasury, risk_profiles, payouts>>

\* The handler reads a voter key only to compare it with the keys of the
\* dispute's votes, so the voters tried are those who voted and one who has
\* not (the least such key).
VoterInputs(dispute_index) ==
    IF dispute_index < Len(disputes)
    THEN LET votes == disputes[dispute_index + 1].votes
             fresh == {v \in Voters : ~\E k \in 1 .. Len(votes) : votes[k][1] = v}
         IN  {votes[k][1] : k \in 1 .. Len(votes)}
                 \cup (IF fresh = {} THEN {} ELSE {SetMin(fresh)})
    ELSE {SetMin(Voters)}

(***************************************************************************)
(* Specifications.  Spec runs the handlers of Claims_Handling.rs and       *)
(* Financial_Risk_Management.rs over one aggregate; SpecClaims,            *)
(* SpecTreasury and SpecDispute run the handlers of one file each          *)
(* (SpecTreasury with the submission that creates the claims it pays).     *)
(***************************************************************************)
NextClaims ==
    \/ \E member \in Keys, amount \in Amounts :
           Len(claims) < MaxClaims /\ SubmitClaim(member, amount)
    \/ \E verifier \in Keys, i \in 0 .. MaxClaims : VerifyClaim(verifier, i)
    \/ \E i \in 0 .. MaxClaims : CH_Payout(i)
    \/ UnknownOpcode

NextTreasury ==
    \/ \E member \in Keys, amount \in Amounts :
           Len(claims) < MaxClaims /\ SubmitClaim(member, amount)
    \/ \E payer \in Payers, amount \in Amounts : PayPremium(payer, amount)
    \/ \E i \in 0 .. MaxClaims, build \in Builds : FRM_Payout(i, build)
    \/ \E member \in Keys, score \in RiskScores, limit \in CoverageLimits :
           /\ UpdateRiskProfile(member, score, limit)
           /\ Len(risk_profiles') <= MaxProfiles
    \/ \E caller \in Keys, ratio \in RatioInputs : SetReserveRatio(caller, ratio)
    \/ UnknownOpcode

NextDispute ==
    \/ \E initiator \in Initiators, respondent \in Respondents :
           Len(disputes) < MaxDisputes /\ SubmitDispute(initiator, respondent)
    \/ \E i \in 0 .. MaxDisputes, vote \in BOOLEAN :
           \E voter \in VoterInputs(i) : CastVote(voter, i, vote)
    \/ UnknownOpcode

\* The membership slice: both join handlers, both claim submissions and the
\* multi-signature operation.
NextMembers ==
    \/ \E member \in Keys : CH_Join(member) /\ Len(members') <= MaxMembers
    \/ \E member \in Keys, data \in JoinPayloads :
           SP_Join(member, data) /\ Len(members') <= MaxMembers
    \/ \E member \in Keys, amount \in Amounts :
           Len(claims) < MaxClaims /\ SubmitClaim(member, amount)
    \/ \E member \in Keys, proof \in Proofs :
           Len(claims) < MaxClaims /\ SP_SubmitClaim(member, proof)
    \/ \E signers \in 0 .. 1 : MultiSig(signers)
    \/ UnknownOpcode

\* The risk-profile handler on lists one longer than MaxProfiles, with the
\* payout that looks the profiles up.
NextProfiles ==
    \/ \E member \in Keys, amount \in Amounts :
           Len(claims) < MaxClaims /\ SubmitClaim(member, amount)
    \/ \E i \in 0 .. MaxClaims, build \in Builds : FRM_Payout(i, build)
    \/ \E member \in Keys, score \in RiskScores, limit \in CoverageLimits :
           /\ UpdateRiskProfile(member, score, limit)
           /\ Len(risk_profiles') <= MaxProfiles + 1
    \/ UnknownOpcode

\* The handlers that create claims and disputes, on lists one longer than
\* MaxClaims and MaxDisputes, with the handlers that carry a claim through
\* its statuses.  No handler here reads a claim's amount, so one amount is
\* submitted.
NextCreation ==
    \/ \E member \in Keys :
           Len(claims) <= MaxClaims /\ SubmitClaim(member, SetMin(Amounts))
    \/ \E verifier \in Keys, i \in 0 .. MaxClaims : VerifyClaim(verifier, i)
    \/ \E i \in 0 .. MaxClaims : CH_Payout(i)
    \/ \E initiator \in Initiators, respondent \in Respondents :
           Len(disputes) <= MaxDisputes /\ SubmitDispute(initiator, respondent)
    \/ UnknownOpcode

SpecMembers == Init /\ [][NextMembers]_vars
SpecProfiles == Init /\ [][NextProfiles]_vars
SpecCreation == Init /\ [][NextCreation]_vars
SpecClaims == Init /\ [][NextClaims]_vars
SpecTreasury == Init /\ [][NextTreasury]_vars
SpecDispute == Init /\ [][NextDispute]_vars

Next ==
    \/ \E member \in Keys, amount \in Amounts :
           Len(claims) < MaxClaims /\ SubmitClaim(member, amount)
    \/ \E verifier \in Keys, i \in 0 .. MaxClaims : VerifyClaim(verifier, i)
    \/ \E i \in 0 .. MaxClaims : CH_Payout(i)
    \/ \E payer \in Payers, amount \in Amounts : PayPremium(payer, amount)
    \/ \E i \in 0 .. MaxClaims, build \in Builds : FRM_Payout(i, build)
    \/ \E member \in Keys, score \in RiskScores, limit \in CoverageLimits :
           /\ UpdateRiskProfile(member, score, limit)
           /\ Len(risk_profiles') <= MaxProfiles
    \/ \E caller \in Keys, ratio \in RatioInputs : SetReserveRatio(caller, ratio)
    \/ UnknownOpcode

Spec == Init /\ [][Next]_vars

(***************************************************************************)
(* Properties.                                                             *)
(***************************************************************************)
\* The last instruction was a payout of claim i (by either payout handler)
\* that returned Ok.
PayoutOk(i) ==
    /\ last.op \in {"CH_Payout", "FRM_Payout"}
    /\ last.res = "Ok"
    /\ last.idx = i

\* C1: a payout of claim i succeeds at most once: no payout of claim i
\* returns Ok after an earlier payout of claim i returned Ok (payouts holds
\* the indices already paid out), so the balance is debited by its amount at
\* most once.
C1_PayoutAtMostOnce ==
    [][\A i \in 0 .. MaxClaims : PayoutOk(i)' => i \notin payouts]_vars

\* C2: a payout of claim i returns Ok only if claim i exists and is Verified
\* when the instruction runs, and a payout that fails leaves the claims and
\* the treasury as they were.
C2_PayoutOnlyVerified ==
    [][/\ \A i \in 0 .. MaxClaims :
            PayoutOk(i)' => (i < Len(claims) /\ claims[i + 1].status = "Verified")
       /\ (last'.op \in {"CH_Payout", "FRM_Payout"} /\ last'.res # "Ok")
            => (claims' = claims /\ treasury' = treasury)]_vars

\* The steps of the status lattice: Pending -> Verified -> Paid and
\* Pending -> Rejected.
Forward(s, t) ==
    \/ s = t
    \/ <<s, t>> \in {<<"Pending", "Verified">>, <<"Verified", "Paid">>,
                     <<"Pending", "Rejected">>}

\* C3: in every step every claim keeps its position and its status stays or
\* moves one step forward along Pending -> Verified -> Paid or
\* Pending -> Rejected; from Paid and from Rejected it never moves.
C3_StatusMonotonic ==
    [][\A k \in 1 .. Len(claims) :
          /\ k <= Len(claims')
          /\ Forward(claims[k].status, claims'[k].status)]_vars

\* C3 witness: a claim went all the way to Paid.
C3_Witness ==
    /\ last.op = "CH_Payout"
    /\ last.res = "Ok"
    /\ claims[last.idx + 1].status = "Paid"

\* C4: no claim's verifier list holds an identifier twice.
C4_NoDuplicateVerifier ==
    \A k \in 1 .. Len(claims) :
        \A a, b \in 1 .. Len(claims[k].verifiers) :
            a # b => claims[k].verifiers[a] # claims[k].verifiers[b]

\* C5: a claim is Verified or Paid exactly when its verifier list has at
\* least 2 entries; no Pending claim has 2 or more verifiers.
C5_VerifiedIffQuorum ==
    \A k \in 1 .. Len(claims) :
        (claims[k].status \in {"Verified", "Paid"}) <=> (Len(claims[k].verifiers) >= 2)

\* C5 witness: the verification that brought the list to 2 entries left the
\* claim Verified.
C5_Witness ==
    /\ last.op = "VerifyClaim"
    /\ last.res = "Ok"
    /\ claims[last.idx + 1].status = "Verified"
    /\ Len(claims[last.idx + 1].verifiers) = 2

\* C6: a verification of an existing claim that is not Pending returns
\* InvalidAccountData (the invalid-state error) whoever the verifier is, and
\* leaves every claim as it was.
C6_VerifyNonPendingFails ==
    [][\A i \in 0 .. MaxClaims :
          (/\ last'.op = "VerifyClaim"
           /\ last'.idx = i
           /\ i < Len(claims)
           /\ claims[i + 1].status # "Pending")
          => (last'.res = "InvalidAccountData" /\ claims' = claims)]_vars

\* C6 witness: two distinct verifiers verified the claim and a third
\* verification was refused.
C6_Witness ==
    /\ last.op = "VerifyClaim"
    /\ last.res = "InvalidAccountData"
    /\ last.idx < Len(claims)
    /\ claims[last.idx + 1].status = "Verified"
    /\ Len(claims[last.idx + 1].verifiers) = 2
    /\ claims[last.idx + 1].verifiers[1] # claims[last.idx + 1].verifiers[2]

\* C7: a dispute is Closed exactly when it has more than 5 votes; a Closed
\* dispute never changes again (status and votes), and every vote cast on
\* it returns InvalidInstructionData (the invalid-state error).
C7_ClosedIffQuorum ==
    /\ [](\A k \in 1 .. Len(disputes) :
            (disputes[k].status = "Closed") <=> (Len(disputes[k].votes) > 5))
    /\ [][\A k \in 1 .. Len(disputes) :
            disputes[k].status = "Closed"
            => /\ k <= Len(disputes')
               /\ disputes'[k] = disputes[k]
               /\ (last'.op = "CastVote" /\ last'.idx = k - 1)
                    => last'.res = "InvalidInstructionData"]_vars

\* C7 witness: a vote was refused on a dispute closed by its 6th vote.
C7_Witness ==
    /\ last.op = "CastVote"
    /\ last.res = "InvalidInstructionData"
    /\ disputes[last.idx + 1].status = "Closed"
    /\ Len(disputes[last.idx + 1].votes) = 6

\* The number of supporting votes, counted without regard to their order.
Supporters(votes) == Cardinality({k \in 1 .. Len(votes) : votes[k][2]})

\* C8: the vote that closes a dispute reports an outcome, and it reports
\* "in favor of initiator" exactly when twice the number of supporting votes
\* recorded (the closing vote included) exceeds the number of votes; the
\* count does not depend on the order of the votes.
C8_OutcomeByMajority ==
    (/\ last.op = "CastVote"
     /\ last.res = "Ok"
     /\ disputes[last.idx + 1].status = "Closed")
    => LET votes == disputes[last.idx + 1].votes
       IN  /\ last.outcome \in {"initiator", "against"}
           /\ (last.outcome = "initiator") <=> (2 * Supporters(votes) > Len(votes))

\* C8 witness: a dispute closed on 3 votes for and 3 against, and resolved
\* against the initiator.
C8_Witness ==
    /\ last.op = "CastVote"
    /\ last.res = "Ok"
    /\ disputes[last.idx + 1].status = "Closed"
    /\ Len(disputes[last.idx + 1].votes) = 6
    /\ Supporters(disputes[last.idx + 1].votes) = 3
    /\ last.outcome = "against"

\* The voter of the last instruction is in the vote list of dispute d.
VoterListed(d, voter) ==
    \E k \in 1 .. Len(disputes[d + 1].votes) : disputes[d + 1].votes[k][1] = voter

\* No dispute's vote list holds two votes of one voter.
OneVotePerVoter ==
    \A k \in 1 .. Len(disputes) :
        \A a, b \in 1 .. Len(disputes[k].votes) :
            a # b => disputes[k].votes[a][1] # disputes[k].votes[b][1]

\* C9 as stated: a vote by a voter already in the dispute's vote list
\* returns InvalidArgument (the duplicate-vote error) and leaves the
\* disputes as they were.
C9_DuplicateVoteError ==
    [][\A d \in 0 .. MaxDisputes :
          (/\ last'.op = "CastVote"
           /\ last'.idx = d
           /\ d < Len(disputes)
           /\ VoterListed(d, last'.key))
          => (last'.res = "InvalidArgument" /\ disputes' = disputes)]_vars

\* C9 amended: no vote list holds two votes of one voter; a vote by a voter
\* already in the vote list of an Open dispute returns InvalidArgument, and
\* on a Closed dispute it returns InvalidInstructionData; either way the
\* disputes stay as they were.
C9_DuplicateVoteOnOpen ==
    /\ []OneVotePerVoter
    /\ [][\A d \in 0 .. MaxDisputes :
            (/\ last'.op = "CastVote"
             /\ last'.idx = d
             /\ d < Len(disputes)
             /\ VoterListed(d, last'.key))
            => /\ disputes' = disputes
               /\ last'.res = IF disputes[d + 1].status = "Open"
                              THEN "InvalidArgument"
                              ELSE "InvalidInstructionData"]_vars

\* C9 witness: a second vote of a voter was refused on an Open dispute.
C9_Witness ==
    /\ last.op = "CastVote"
    /\ last.res = "InvalidArgument"
    /\ disputes[last.idx + 1].status = "Open"
    /\ VoterListed(last.idx, last.key)

\* Claim i exists, a risk profile is found for its member, and its amount
\* is above the coverage limit of that profile.
OverCoverage(i) ==
    /\ i < Len(claims)
    /\ LET rp == FindProfile(risk_profiles, calculate_risk_score(claims[i + 1].member))
       IN  /\ rp # 0
           /\ claims[i + 1].amount > risk_profiles[rp].coverage_limit

\* The payout of claim i would leave less than the reserve.
BreachesReserve(i) ==
    WrappingSub(treasury.balance,
                required_reserve(treasury.balance, treasury.reserve_ratio))
        < claims[i + 1].amount

\* C10: the treasury payout of a claim whose amount is above the coverage
\* limit of its member's risk profile returns InvalidArgument (the
\* limit-exceeded error), also when the payout would breach the reserve,
\* and leaves the treasury as it was.
C10_CoverageBeforeReserve ==
    [][\A i \in 0 .. MaxClaims :
          (last'.op = "FRM_Payout" /\ last'.idx = i /\ OverCoverage(i))
          => (last'.res = "InvalidArgument" /\ treasury' = treasury)]_vars

\* C10 witness: a payout was refused with InvalidArgument for a claim that
\* was both above its coverage limit and above what the reserve leaves.
C10_Witness ==
    /\ last.op = "FRM_Payout"
    /\ last.res = "InvalidArgument"
    /\ OverCoverage(last.idx)
    /\ BreachesReserve(last.idx)

\* floor(balance x reserve_ratio), on the integers
FloorReserve(balance, ratio) == (balance * ratio) \div RatioDen

\* Claim i exists, a risk profile is found for its member, and its amount
\* is within the coverage limit of that profile.
WithinCoverage(i) ==
    /\ i < Len(claims)
    /\ LET rp == FindProfile(risk_profiles, calculate_risk_score(claims[i + 1].member))
       IN  /\ rp # 0
           /\ claims[i + 1].amount <= risk_profiles[rp].coverage_limit

\* C11: a treasury payout of a claim within its coverage returns
\* InsufficientFunds whenever balance - floor(balance x reserve_ratio) is
\* less than the claim's amount; a payout that returns Ok debits exactly the
\* claim's amount and leaves no less than floor(balance x reserve_ratio) of
\* the balance it found.
C11_ReserveProtected ==
    [][\A i \in 0 .. MaxClaims :
          (last'.op = "FRM_Payout" /\ last'.idx = i /\ WithinCoverage(i))
          => LET reserve == FloorReserve(treasury.balance, treasury.reserve_ratio)
                 amount == claims[i + 1].amount
             IN  /\ (treasury.balance - reserve < amount)
                      => (last'.res = "InsufficientFunds" /\ treasury' = treasury)
                 /\ (last'.res = "Ok")
                      => /\ treasury'.balance = treasury.balance - amount
                         /\ treasury'.balance >= reserve]_vars

\* C12: the balance is never negative, and a treasury payout that returns
\* Ok right after an accepted premium payment of the claim's amount brings
\* the balance back to what it was before the premium.
C12_RoundTrip ==
    /\ [](treasury.balance >= 0)
    /\ [][(/\ last.op = "PayPremium"
           /\ last.res = "Ok"
           /\ last'.op = "FRM_Payout"
           /\ last'.res = "Ok"
           /\ claims[last'.idx + 1].amount = last.amount)
          => treasury'.balance = last.before]_vars

\* C12 witness: a payout returned Ok right after a premium of the claim's
\* amount was accepted.
C12_Witness ==
    /\ last.op = "FRM_Payout"
    /\ last.res = "Ok"
    /\ last.premium = claims[last.idx + 1].amount

\* C13: the balance stays within the unsigned range; a premium payment adds
\* exactly its amount when the sum fits the range, and otherwise returns
\* ArithmeticOverflow and leaves the treasury as it was.
C13_PremiumChecked ==
    /\ [](treasury.balance \in 0 .. U64_MAX)
    /\ [][last'.op = "PayPremium"
          => IF treasury.balance + last'.amount <= U64_MAX
             THEN /\ last'.res = "Ok"
                  /\ treasury'.balance = treasury.balance + last'.amount
             ELSE /\ last'.res = "ArithmeticOverflow"
                  /\ treasury' = treasury]_vars

\* C13 witness: a premium payment was refused because the sum would pass
\* the largest balance.
C13_Witness ==
    /\ last.op = "PayPremium"
    /\ last.res = "ArithmeticOverflow"
    /\ treasury.balance + last.amount > U64_MAX

\* C14: the reserve ratio changes only in a SetReserveRatio called by the
\* admin; a SetReserveRatio by another caller returns IncorrectProgramId
\* (the unauthorized error) and leaves the ratio; the admin never changes.
C14_RatioOnlyByAdmin ==
    [][/\ (treasury'.reserve_ratio # treasury.reserve_ratio)
            => (last'.op = "SetReserveRatio" /\ last'.res = "Ok" /\ last'.key = admin)
       /\ (last'.op = "SetReserveRatio" /\ last'.key # admin)
            => (last'.res = "IncorrectProgramId" /\ treasury' = treasury)
       /\ admin' = admin]_vars

\* C14 witness: after the admin set a ratio, another caller was refused.
C14_Witness ==
    /\ last.op = "SetReserveRatio"
    /\ last.res = "IncorrectProgramId"
    /\ last.key # admin
    /\ treasury.reserve_ratio # 0

\* C15: the reserve ratio lies in [0, 1].
C15_RatioInRange ==
    /\ treasury.reserve_ratio >= 0
    /\ treasury.reserve_ratio <= RatioDen

\* C16: no two members share a member address.
C16_UniqueMembers ==
    \A j, k \in 1 .. Len(members) :
        j # k => members[j].member_address # members[k].member_address

\* C17: every claim was submitted by a registered member address (members
\* are never removed, so a submitter registered at submission still is).
C17_ClaimsByMembers ==
    \A k \in 1 .. Len(claims) : IsRegistered(claims[k].member)

\* C18: the claim at position k (counted from 0) has claim_id k and the
\* dispute at position k has dispute_id k; a SubmitClaim that returns Ok
\* appends one claim, Pending, without verifiers, whose claim_id is the
\* claim count before it, and a SubmitDispute that returns Ok appends one
\* dispute, Open, without votes, whose dispute_id is the dispute count
\* before it.
C18_DenseIds ==
    /\ [](/\ \A k \in 1 .. Len(claims) : claims[k].claim_id = k - 1
          /\ \A k \in 1 .. Len(disputes) : disputes[k].dispute_id = k - 1)
    /\ [][/\ (last'.op = "SubmitClaim" /\ last'.res = "Ok")
               => /\ Len(claims') = Len(claims) + 1
                  /\ SubSeq(claims', 1, Len(claims)) = claims
                  /\ claims'[Len(claims')].claim_id = Len(claims)
                  /\ claims'[Len(claims')].status = "Pending"
                  /\ claims'[Len(claims')].verifiers = <<>>
          /\ (last'.op = "SubmitDispute" /\ last'.res = "Ok")
               => /\ Len(disputes') = Len(disputes) + 1
                  /\ SubSeq(disputes', 1, Len(disputes)) = disputes
                  /\ disputes'[Len(disputes')].dispute_id = Len(disputes)
                  /\ disputes'[Len(disputes')].status = "Open"
                  /\ disputes'[Len(disputes')].votes = <<>>]_vars

\* C18 witness: a second dispute was submitted while two claims exist, the
\* first of them no longer Pending.
C18_Witness ==
    /\ last.op = "SubmitDispute"
    /\ last.res = "Ok"
    /\ Len(disputes) = 2
    /\ Len(claims) = 2
    /\ claims[1].status # "Pending"

C20_OneProfilePerBucket ==
    \A j, k \in 1 .. Len(risk_profiles) :
        j # k => risk_profiles[j].risk_score # risk_profiles[k].risk_score

\* C21: a treasury payout of a claim within its coverage finds
\* required_reserve no larger than the balance (balance - required_reserve
\* does not underflow), never returns ArithmeticOverflow, and when it passes
\* the reserve check the claim's amount is no larger than the balance.
C21_SubtractionsInRange ==
    [][\A i \in 0 .. MaxClaims :
          (last'.op = "FRM_Payout" /\ last'.idx = i /\ WithinCoverage(i))
          => /\ required_reserve(treasury.balance, treasury.reserve_ratio)
                    <= treasury.balance
             /\ last'.res # "ArithmeticOverflow"
             /\ (last'.res = "Ok")
                    => claims[i + 1].amount <= treasury.balance]_vars

\* A 32-byte hash of equal bytes
HashOf(byte) == [k \in 1 .. HashLen |-> byte]

\* C22: a Security_Privacy join whose payload is a role byte followed by a
\* 32-byte hash returns Ok when the role byte is 1 and the key is not
\* registered, appending one member with that key, role Member and that
\* hash; with another role byte it fails and leaves the member list.
C22_JoinRoleThenHash ==
    [][\A r \in RoleBytes, h \in HashBytes :
          (last'.op = "SP_Join" /\ last'.data = RoleFirst(r, h))
          => /\ (r = 1 /\ ~IsRegistered(last'.key))
                    => /\ last'.res = "Ok"
                       /\ members' = Append(members,
                              [member_address |-> last'.key,
                               role |-> "Member",
                               encrypted_data_hash |-> HashOf(h)])
             /\ (r # 1) => (last'.res # "Ok" /\ members' = members)]_vars

\* The sum of the amounts of the claims at positions k and below that are
\* Paid after the step and were not before it.
RECURSIVE NewlyPaid(_, _, _)
NewlyPaid(before, after, k) ==
    IF k = 0 THEN 0
    ELSE NewlyPaid(before, after, k - 1)
         + (IF /\ after[k].status = "Paid"
               /\ (k > Len(before) \/ before[k].status # "Paid")
            THEN after[k].amount ELSE 0)

\* C23: every step changes the treasury balance by the amount of the
\* premium it accepted (none if it accepted none) less the amounts of the
\* claims it marked Paid; so the balance is the accepted premiums less the
\* amounts of the Paid claims, a claim marked Paid is debited and a debit
\* marks its claim Paid.
C23_FundsConserved ==
    [][treasury'.balance - treasury.balance
           = (IF last'.op = "PayPremium" /\ last'.res = "Ok"
              THEN last'.amount ELSE 0)
             - NewlyPaid(claims, claims', Len(claims'))]_vars

\* C24: every claim is Pending, Verified or Paid, and a claim that leaves
\* Pending does so in a verification that makes it Verified with no fewer
\* than 2 verifiers.
C24_NeverRejected ==
    /\ [](\A k \in 1 .. Len(claims) :
              claims[k].status \in {"Pending", "Verified", "Paid"})
    /\ [][\A k \in 1 .. Len(claims) :
              (claims[k].status = "Pending" /\ claims'[k].status # "Pending")
              => /\ last'.op = "VerifyClaim"
                 /\ last'.res = "Ok"
                 /\ last'.idx = k - 1
                 /\ claims'[k].status = "Verified"
                 /\ Len(claims'[k].verifiers) >= Q_verify]_vars

\* C24 witness: a claim that left Pending at the quorum was paid, and a
\* further verification of it was refused.
C24_Witness ==
    /\ last.op = "VerifyClaim"
    /\ last.res = "InvalidAccountData"
    /\ last.idx < Len(claims)
    /\ claims[last.idx + 1].status = "Paid"
    /\ Len(claims[last.idx + 1].verifiers) = Q_verify

====
